---- MODULE Spec2Model ----
(***************************************************************************)
(* Command side of the wallet system: the event store with its unique      *)
(* (aggregate_id, version) constraint, the wallet aggregate, the aggregate *)
(* repository, the deposit / withdraw handlers, the transfer saga and the  *)
(* idempotency guard / interceptor of the API gateway; and the query side: *)
(* the wallet.events.queue and the projection consumer of the read model.  *)
(*                                                                         *)
(* Every request is a process whose steps are the I/O calls the code       *)
(* awaits (Redis GET / SET NX / DEL, event store find / save, saga table   *)
(* update).  Code between two awaits runs in the same step, as it does on  *)
(* the Node.js event loop; RabbitMQService.publish has no await inside, so *)
(* a publish belongs to the step of the I/O call that precedes it.         *)
(***************************************************************************)
EXTENDS Integers, FiniteSets, Sequences, TLC

\* ---------------------------------------------------------------- bounds
MaxAmount == 1
MaxInit == 1
MaxFail == 1
MaxRedeliver == 1
MaxBatch == 2
MaxEvents == 3
TtlSeconds == 2
MaxTime == 4

\* request slots; Pair are the two requests of the general specification
Req == {1, 2, 3}
Pair == {1, 2}
Wallets == {"w1", "w2"}
Keys == {"k1", "k2"}
Amounts == 1 .. MaxAmount

\* ------------------------------------------------------------- constants
\* HttpStatus of a response: OK, CREATED, CONFLICT, or ERROR for a propagated exception
HttpStatus == {"OK", "CREATED", "CONFLICT", "ERROR"}

TransferSagaStatus == {"INITIATED", "SOURCE_DEBITED", "COMPLETED", "COMPENSATING", "FAILED"}

\* FRAUD_RULES of the shared constants
FRAUD_RULES ==
  [LARGE_TRANSACTION |-> [ID |-> "large-transaction", THRESHOLD |-> 10000],
   HIGH_VELOCITY |-> [ID |-> "high-velocity", TRANSACTION_COUNT |-> 5],
   RAPID_WITHDRAWAL |-> [ID |-> "rapid-withdrawal"]]

AlertSeverity == {"LOW", "MEDIUM", "HIGH", "CRITICAL"}

\* RiskProfileService.SEVERITY_SCORES
SEVERITY_SCORES == [LOW |-> 5, MEDIUM |-> 15, HIGH |-> 30, CRITICAL |-> 50]

\* RiskProfileService.RISK_THRESHOLDS
RISK_THRESHOLDS == [LOW |-> 25, MEDIUM |-> 50, HIGH |-> 75, CRITICAL |-> 100]

\* amounts of the events the fraud consumer sees: at the threshold of the
\* large-transaction rule and above it
FraudAmounts ==
  {FRAUD_RULES.LARGE_TRANSACTION.THRESHOLD, FRAUD_RULES.LARGE_TRANSACTION.THRESHOLD + 1}

\* event types routed to fraud.events.queue; the last one is not transactional
FraudEventTypes == {"MoneyDepositedEvent", "MoneyWithdrawnEvent", "TransferInitiatedEvent"}

\* processEvent: the events that are analysed
transactionalEvents ==
  {"MoneyDepositedEvent", "MoneyWithdrawnEvent", "MoneyTransferredEvent",
   "SourceWalletDebitedEvent", "DestinationWalletCreditedEvent"}

\* no Redis entry under a key
NoEntry == [status |-> "NONE", createdAt |-> 0, expiresAt |-> 0]

\* no risk_profiles row
NoProfile == [riskScore |-> 0, riskLevel |-> "NONE", alertCount |-> 0]

VARIABLES
  events,   \* event_store table: set of rows
  redis,    \* idempotency records by key
  sagas,    \* transfer_sagas table, one row per transfer execution
  pc,       \* position of every request
  cmd,      \* the command a request carries
  loc,      \* the aggregate a request holds in memory, and the error it caught
  resp,     \* the HTTP response a request was answered with
  fails,    \* number of publishes the broker channel has rejected
  queue,    \* wallet.events.queue: published messages not yet acknowledged
  walletRead,   \* wallet_read_model table
  txRead,       \* transaction_read_model table
  consumer,     \* position of WalletEventConsumer in the message it handles
  redelivered,  \* number of deliveries the broker has repeated
  dlq,          \* wallet.events.dlq: messages the consumer rejected
  fraudQueue,       \* fraud.events.queue: messages not yet acknowledged
  recentEvents,     \* recent_events table of the fraud service
  alerts,           \* alerts table
  riskProfiles,     \* risk_profiles table, by wallet
  fraudRedelivered, \* number of deliveries to the fraud consumer the broker has repeated
  fraudPublished,   \* number of events routed to fraud.events.queue
  now,              \* clock of the Redis server, in seconds
  redisTtl,         \* idempotency records with their expiry, by key
  holder            \* by key, the request that took the lock and when

readModel == <<walletRead, txRead, consumer, redelivered, dlq>>

expiry == <<now, redisTtl, holder>>

fraud == <<fraudQueue, recentEvents, alerts, riskProfiles, fraudRedelivered, fraudPublished>>

vars == <<events, redis, sagas, pc, cmd, loc, resp, fails, queue, readModel, fraud, expiry>>

\* ------------------------------------------------------------ data shapes
NoCmd == [kind |-> "none", from |-> "w1", to |-> "w1", amount |-> 0, key |-> "k1"]
NoLoc == [bal |-> 0, ver |-> 0, err |-> "none"]
NoBody == [origin |-> 0, success |-> FALSE, msg |-> "none", balance |-> 0]
NoResp == [status |-> "none", body |-> NoBody, cached |-> FALSE, key |-> "none"]
NoRec == [status |-> "NONE", response |-> NoBody]
NoSaga == [status |-> "NONE", debitTx |-> "none", creditTx |-> "none", compTx |-> "none"]

DepositCommands ==
  { [kind |-> "deposit", from |-> w, to |-> w, amount |-> a, key |-> k] :
      w \in Wallets, a \in Amounts, k \in Keys }

WithdrawCommands ==
  { [kind |-> "withdraw", from |-> w, to |-> w, amount |-> a, key |-> k] :
      w \in Wallets, a \in Amounts, k \in Keys }

TransferCommands ==
  { [kind |-> "transfer", from |-> f, to |-> t, amount |-> a, key |-> k] :
      f \in Wallets, t \in Wallets, a \in Amounts, k \in Keys }

Commands == DepositCommands \cup WithdrawCommands \cup TransferCommands

\* transaction id of the event a request commits in one of its steps
Tx(r, step) == <<r, step>>

\* ------------------------------------------------------------ event store
Row(agg, version, type, amount, tx) ==
  [agg |-> agg, version |-> version, type |-> type, amount |-> amount, tx |-> tx]

\* EventStoreService.getEvents
getEvents(store, agg) == { e \in store : e.agg = agg }

\* mutant: the table has no unique constraint
NoUniqueConstraint(store, agg, expectedVersion, n) == FALSE

\* the unique (aggregate_id, version) constraint rejects the insert
UniqueViolated(store, agg, expectedVersion, n) ==
  \E e \in store : e.agg = agg /\ e.version \in (expectedVersion + 1) .. (expectedVersion + n)

\* mutant: the version is incremented twice per event
saveEventsSkipping(agg, evs, expectedVersion) ==
  { [agg |-> agg, version |-> expectedVersion + 2 * i, type |-> evs[i].type,
     amount |-> evs[i].amount, tx |-> evs[i].tx] : i \in 1 .. Len(evs) }

\* EventStoreService.saveEvents: the rows of a batch, versions expectedVersion+1 ..
saveEvents(agg, evs, expectedVersion) ==
  { Row(agg, expectedVersion + i, evs[i].type, evs[i].amount, evs[i].tx) : i \in 1 .. Len(evs) }

\* mutant: the rows are inserted one by one outside a transaction, so the
\* rows before the first rejected one stay
eventStoreRepositorySaveRowByRow(store, rows) ==
  store \cup { x \in rows :
                \A y \in rows :
                  y.version <= x.version => ~ UniqueViolated(store, y.agg, y.version - 1, 1) }

\* eventStoreRepository.save(eventEntities): the rows of the array are
\* inserted in one transaction, which a rejected row rolls back
eventStoreRepositorySave(store, rows) ==
  IF \E x \in rows : UniqueViolated(store, x.agg, x.version - 1, 1)
  THEN store
  ELSE store \cup rows

\* ------------------------------------------------------- wallet aggregate
RECURSIVE replay(_)
\* WalletAggregate.replayEvent over a set of stored events
replay(rows) ==
  IF rows = {} THEN 0
  ELSE LET e == CHOOSE x \in rows : TRUE
           rest == replay(rows \ {e})
       IN  IF e.type = "MoneyDepositedEvent" THEN rest + e.amount
           ELSE IF e.type = "MoneyWithdrawnEvent" THEN rest - e.amount
           ELSE rest

\* mutant: deserializeEvent does not know MoneyWithdrawnEvent, replay skips it
findByIdDepositsOnly(store, agg) ==
  [bal |-> replay({ e \in getEvents(store, agg) : e.type = "MoneyDepositedEvent" }),
   ver |-> Cardinality(getEvents(store, agg))]

\* WalletRepository.findById: balance by replay, version = events.length
findById(store, agg) ==
  [bal |-> replay(getEvents(store, agg)), ver |-> Cardinality(getEvents(store, agg))]

\* mutant: withdraw does not compare the amount with the balance
InsufficientFundsUnchecked(balance, amount) == FALSE

\* WalletAggregate.withdraw rejects the amount
InsufficientFunds(balance, amount) == balance < amount

\* balance of a wallet folded up to version v
BalanceAt(store, agg, v) == replay({ e \in getEvents(store, agg) : e.version <= v })
Balance(agg) == replay(getEvents(events, agg))

\* ---------------------------------------------------------------- Init
\* a wallet is new, or was funded by a deposit that completed earlier; wallet
\* ids are interchangeable, so when only one wallet is funded it is "w1"
InitRows(b) ==
  UNION { saveEvents(w, <<[type |-> "MoneyDepositedEvent", amount |-> b[w], tx |-> Tx(0, w)]>>, 0) :
            w \in { x \in Wallets : b[x] > 0 } }

InitWallets ==
  /\ \E b \in [Wallets -> {0, MaxInit}] :
       /\ b["w2"] <= b["w1"]
       /\ events = InitRows(b)
       /\ walletRead = { [id |-> e.agg, balance |-> e.amount] : e \in InitRows(b) }
       /\ txRead = { [id |-> e.tx, walletId |-> e.agg, type |-> "DEPOSIT", amount |-> e.amount,
                      balanceAfter |-> e.amount] : e \in InitRows(b) }
  /\ redis = [k \in Keys |-> NoRec]
  /\ sagas = [r \in Req |-> NoSaga]
  /\ pc = [r \in Req |-> "idle"]
  /\ cmd = [r \in Req |-> NoCmd]
  /\ loc = [r \in Req |-> NoLoc]
  /\ resp = [r \in Req |-> NoResp]
  /\ fails = 0
  /\ queue = <<>>
  /\ consumer = "idle"
  /\ redelivered = 0
  /\ dlq = <<>>
  /\ now = 0
  /\ redisTtl = [k \in Keys |-> NoEntry]
  /\ holder = [k \in Keys |-> [state |-> "idle", lockedAt |-> 0]]

\* the fraud tables when wallet w1 has made k deposits at the threshold of the
\* large-transaction rule inside the time window: they are tracked and
\* raised no alert
InitFraudStore(k) ==
  /\ fraudQueue = <<>>
  /\ recentEvents = [i \in 1 .. k |->
                       [walletId |-> "w1", eventType |-> "MoneyDepositedEvent",
                        amount |-> FRAUD_RULES.LARGE_TRANSACTION.THRESHOLD,
                        transactionId |-> Tx(0, i)]]
  /\ alerts = <<>>
  /\ riskProfiles = [w \in Wallets |-> NoProfile]
  /\ fraudRedelivered = 0
  /\ fraudPublished = 0

Init == InitWallets /\ InitFraudStore(0)

\* the fraud service has been running: w1 is fresh or has as many recent
\* events as the velocity rule tolerates
InitFraud == InitWallets /\ \E k \in {0, FRAUD_RULES.HIGH_VELOCITY.TRANSACTION_COUNT} : InitFraudStore(k)

\* ------------------------------------------------- gateway: the guard
\* first handler step of a request that the guard let through
Start(c) == IF c.kind = "transfer" THEN "create" ELSE "load"

\* mutant: the guard writes the cached response but lets the request through
DuplicateProceeds(r, c, rec) ==
  IF rec.status = "IN_PROGRESS"
  THEN /\ resp' = [resp EXCEPT ![r] =
                     [status |-> "CONFLICT", body |-> NoBody, cached |-> FALSE, key |-> c.key]]
       /\ pc' = [pc EXCEPT ![r] = "done"]
  ELSE /\ resp' = [resp EXCEPT ![r] =
                     [status |-> "OK", body |-> rec.response, cached |-> TRUE, key |-> c.key]]
       /\ pc' = [pc EXCEPT ![r] = Start(c)]

\* mutant: a request that finds the key IN_PROGRESS is let through
DuplicateInProgressProceeds(r, c, rec) ==
  IF rec.status = "IN_PROGRESS"
  THEN /\ pc' = [pc EXCEPT ![r] = Start(c)]
       /\ UNCHANGED resp
  ELSE /\ resp' = [resp EXCEPT ![r] =
                     [status |-> "OK", body |-> rec.response, cached |-> TRUE, key |-> c.key]]
       /\ pc' = [pc EXCEPT ![r] = "done"]

\* mutant: the cached response is sent with the status of the first response
DuplicateCreated(r, c, rec) ==
  IF rec.status = "IN_PROGRESS"
  THEN /\ resp' = [resp EXCEPT ![r] =
                     [status |-> "CONFLICT", body |-> NoBody, cached |-> FALSE, key |-> c.key]]
       /\ pc' = [pc EXCEPT ![r] = "done"]
  ELSE /\ resp' = [resp EXCEPT ![r] =
                     [status |-> "CREATED", body |-> rec.response, cached |-> TRUE, key |-> c.key]]
       /\ pc' = [pc EXCEPT ![r] = "done"]

\* IdempotencyGuard.canActivate on { isDuplicate: true, status, response }
Duplicate(r, c, rec) ==
  IF rec.status = "IN_PROGRESS"
  THEN /\ resp' = [resp EXCEPT ![r] =
                     [status |-> "CONFLICT", body |-> NoBody, cached |-> FALSE, key |-> c.key]]
       /\ pc' = [pc EXCEPT ![r] = "done"]
  ELSE /\ resp' = [resp EXCEPT ![r] =
                     [status |-> "OK", body |-> rec.response, cached |-> TRUE, key |-> c.key]]
       /\ pc' = [pc EXCEPT ![r] = "done"]

\* a client sends a command of C (requests are numbered in the order they
\* arrive; keys are opaque strings, so the first key seen is "k1") and the
\* guard runs IdempotencyService.checkAndLock: redis.get(key)
CheckGet(r, C) ==
  /\ pc[r] = "idle"
  /\ \A q \in Req : q < r => pc[q] # "idle"
  /\ \E c \in C :
       /\ r = 1 => c.key = "k1"
       /\ cmd' = [cmd EXCEPT ![r] = c]
       /\ IF redis[c.key] # NoRec
          THEN Duplicate(r, c, redis[c.key])
          ELSE /\ pc' = [pc EXCEPT ![r] = "setnx"]
               /\ UNCHANGED resp
  /\ UNCHANGED <<events, redis, sagas, loc, fails, queue, readModel, fraud, expiry>>

\* IdempotencyService.checkAndLock: redis.set(key, IN_PROGRESS, 'EX', ttl, 'NX')
CheckSetNx(r) ==
  /\ pc[r] = "setnx"
  /\ IF redis[cmd[r].key] = NoRec
     THEN /\ redis' = [redis EXCEPT ![cmd[r].key] = [status |-> "IN_PROGRESS", response |-> NoBody]]
          /\ pc' = [pc EXCEPT ![r] = Start(cmd[r])]
     ELSE /\ pc' = [pc EXCEPT ![r] = "reget"]
          /\ UNCHANGED redis
  /\ UNCHANGED <<events, sagas, cmd, loc, resp, fails, queue, readModel, fraud, expiry>>

\* IdempotencyService.checkAndLock: the re-fetch after a lost SET NX
CheckReGet(r) ==
  /\ pc[r] = "reget"
  /\ IF redis[cmd[r].key] # NoRec
     THEN Duplicate(r, cmd[r], redis[cmd[r].key])
     ELSE /\ pc' = [pc EXCEPT ![r] = Start(cmd[r])]
          /\ UNCHANGED resp
  /\ UNCHANGED <<events, redis, sagas, cmd, loc, fails, queue, readModel, fraud, expiry>>

\* ------------------------------------------- gateway: the interceptor
\* the handler returned a body: it is sent, and complete() is started
Return(r, body) ==
  /\ resp' = [resp EXCEPT ![r] =
                [status |-> "CREATED", body |-> body, cached |-> FALSE, key |-> cmd[r].key]]
  /\ pc' = [pc EXCEPT ![r] = "complete"]

\* the handler threw: the interceptor will release the key
Throw(r, e) ==
  /\ loc' = [loc EXCEPT ![r] = [NoLoc EXCEPT !.err = e]]
  /\ pc' = [pc EXCEPT ![r] = "release"]

\* mutant: only a response with success:true is stored, otherwise the key is
\* deleted
CompleteSuccessOnly(r) ==
  /\ pc[r] = "complete"
  /\ redis' = [redis EXCEPT ![cmd[r].key] =
                IF resp[r].body.success
                THEN [status |-> "COMPLETED", response |-> resp[r].body]
                ELSE NoRec]
  /\ pc' = [pc EXCEPT ![r] = "done"]
  /\ UNCHANGED <<events, sagas, cmd, loc, resp, fails, queue, readModel, fraud, expiry>>

\* IdempotencyService.complete: redis.set(key, COMPLETED + response)
Complete(r) ==
  /\ pc[r] = "complete"
  /\ redis' = [redis EXCEPT ![cmd[r].key] = [status |-> "COMPLETED", response |-> resp[r].body]]
  /\ pc' = [pc EXCEPT ![r] = "done"]
  /\ UNCHANGED <<events, sagas, cmd, loc, resp, fails, queue, readModel, fraud, expiry>>

\* mutant: the error is answered and the record stays
ReleaseKeepsRecord(r) ==
  /\ pc[r] = "release"
  /\ resp' = [resp EXCEPT ![r] =
                [status |-> "ERROR", body |-> NoBody, cached |-> FALSE, key |-> cmd[r].key]]
  /\ pc' = [pc EXCEPT ![r] = "done"]
  /\ UNCHANGED <<events, redis, sagas, cmd, loc, fails, queue, readModel, fraud, expiry>>

\* IdempotencyService.release: redis.del(key), then the error is answered
Release(r) ==
  /\ pc[r] = "release"
  /\ redis' = [redis EXCEPT ![cmd[r].key] = NoRec]
  /\ resp' = [resp EXCEPT ![r] =
                [status |-> "ERROR", body |-> NoBody, cached |-> FALSE, key |-> cmd[r].key]]
  /\ pc' = [pc EXCEPT ![r] = "done"]
  /\ UNCHANGED <<events, sagas, cmd, loc, fails, queue, readModel, fraud, expiry>>

\* ------------------------------------- deposit and withdraw handlers
\* RabbitMQService.publish rethrows what channel.publish throws
PublishThrows == fails < MaxFail

\* the event types whose handler in WalletEventConsumer writes the read model
WalletEvents ==
  {"MoneyDepositedEvent", "MoneyWithdrawnEvent", "SourceWalletDebitedEvent",
   "DestinationWalletCreditedEvent", "SourceWalletRefundedEvent"}

\* RabbitMQService.publish: the message is routed to wallet.events.queue; a
\* message that the consumer only logs and acknowledges is not kept
publish(message) ==
  queue' = IF message.eventType \in WalletEvents THEN Append(queue, message) ELSE queue

\* mutant: the handler reads the balance before it applies the amount
MessageBalanceBefore(eventType, walletId, amount, transactionId, balanceAfter) ==
  [eventType |-> eventType, walletId |-> walletId, amount |-> amount,
   transactionId |-> transactionId,
   balanceAfter |-> IF eventType = "MoneyDepositedEvent" THEN balanceAfter - amount
                    ELSE balanceAfter]

\* the message of a wallet event
Message(eventType, walletId, amount, transactionId, balanceAfter) ==
  [eventType |-> eventType, walletId |-> walletId, amount |-> amount,
   transactionId |-> transactionId, balanceAfter |-> balanceAfter]

\* the message of a saga event that carries no wallet state
Info(eventType, r) == Message(eventType, cmd[r].from, cmd[r].amount, Tx(r, "saga"), 0)

\* DepositHandler / WithdrawHandler.execute: findById, then deposit / withdraw
Load(r) ==
  /\ pc[r] = "load"
  /\ LET w == findById(events, cmd[r].from) IN
       IF cmd[r].kind = "withdraw"
       THEN IF InsufficientFunds(w.bal, cmd[r].amount)
            THEN Throw(r, "insufficient")
            ELSE /\ loc' = [loc EXCEPT ![r] = [NoLoc EXCEPT !.bal = w.bal - cmd[r].amount,
                                                             !.ver = w.ver + 1]]
                 /\ pc' = [pc EXCEPT ![r] = "save"]
       ELSE /\ loc' = [loc EXCEPT ![r] = [NoLoc EXCEPT !.bal = w.bal + cmd[r].amount,
                                                        !.ver = w.ver + 1]]
            /\ pc' = [pc EXCEPT ![r] = "save"]
  /\ UNCHANGED <<events, redis, sagas, cmd, resp, fails, queue, readModel, fraud, expiry>>

EventType(kind) == IF kind = "withdraw" THEN "MoneyWithdrawnEvent" ELSE "MoneyDepositedEvent"

\* mutant: the message is published before the save, so it is on the bus
\* also when the append is rejected
SavePublishesFirst(r) ==
  /\ pc[r] = "save"
  /\ LET ev == [type |-> EventType(cmd[r].kind), amount |-> cmd[r].amount, tx |-> Tx(r, "cmd")]
         expectedVersion == loc[r].ver - 1
     IN
       /\ publish(Message(ev.type, cmd[r].from, ev.amount, ev.tx, loc[r].bal))
       /\ IF UniqueViolated(events, cmd[r].from, expectedVersion, 1)
          THEN /\ Throw(r, "conflict")
               /\ UNCHANGED <<events, resp>>
          ELSE /\ events' = events \cup saveEvents(cmd[r].from, <<ev>>, expectedVersion)
               /\ Return(r, [origin |-> r, success |-> TRUE, msg |-> "ok",
                             balance |-> loc[r].bal])
               /\ loc' = [loc EXCEPT ![r] = NoLoc]
  /\ UNCHANGED <<redis, sagas, cmd, fails, readModel, fraud, expiry>>

\* DepositHandler / WithdrawHandler.execute: save, publish, return
Save(r) ==
  /\ pc[r] = "save"
  /\ LET ev == [type |-> EventType(cmd[r].kind), amount |-> cmd[r].amount, tx |-> Tx(r, "cmd")]
         expectedVersion == loc[r].ver - 1
     IN
       IF UniqueViolated(events, cmd[r].from, expectedVersion, 1)
       THEN /\ Throw(r, "conflict")
            /\ UNCHANGED <<events, resp, fails, queue>>
       ELSE /\ events' = events \cup saveEvents(cmd[r].from, <<ev>>, expectedVersion)
            /\ \/ /\ publish(Message(ev.type, cmd[r].from, ev.amount, ev.tx, loc[r].bal))
                  /\ Return(r, [origin |-> r, success |-> TRUE, msg |-> "ok",
                                balance |-> loc[r].bal])
                  /\ loc' = [loc EXCEPT ![r] = NoLoc]
                  /\ UNCHANGED fails
               \/ /\ PublishThrows
                  /\ fails' = fails + 1
                  /\ Throw(r, "publish")
                  /\ UNCHANGED <<resp, queue>>
  /\ UNCHANGED <<redis, sagas, cmd, readModel, fraud, expiry>>

\* ------------------------------------------------------- transfer saga
\* TransferSagaRepository.updateStatus: only the given columns change
updateStatus(row, status) == [row EXCEPT !.status = status]

Body(r, success, msg) == [origin |-> r, success |-> success, msg |-> msg, balance |-> 0]

\* the aggregate in memory after deposit / withdraw of the command's amount
Applied(w, delta) == [NoLoc EXCEPT !.bal = w.bal + delta, !.ver = w.ver + 1]

\* an error caught inside execute: remember it and go to the catch block
Catch(r, e, handler) ==
  /\ loc' = [loc EXCEPT ![r] = [NoLoc EXCEPT !.err = e]]
  /\ pc' = [pc EXCEPT ![r] = handler]

\* execute, step 1: sagaRepository.create, publishTransferInitiated
SagaCreate(r) ==
  /\ pc[r] = "create"
  /\ sagas' = [sagas EXCEPT ![r] = [NoSaga EXCEPT !.status = "INITIATED"]]
  /\ \/ /\ publish(Info("TransferInitiatedEvent", r))
        /\ pc' = [pc EXCEPT ![r] = "d_load"]
        /\ UNCHANGED <<loc, fails>>
     \/ /\ PublishThrows
        /\ fails' = fails + 1
        /\ Throw(r, "publish")
        /\ UNCHANGED queue
  /\ UNCHANGED <<events, redis, cmd, resp, readModel, fraud, expiry>>

\* mutant: a debit refused for insufficient funds is swallowed and the saga
\* goes on to the credit
DebitLoadSwallowed(r) ==
  /\ pc[r] = "d_load"
  /\ LET w == findById(events, cmd[r].from) IN
       IF InsufficientFunds(w.bal, cmd[r].amount)
       THEN /\ pc' = [pc EXCEPT ![r] = "c_load"]
            /\ UNCHANGED loc
       ELSE /\ loc' = [loc EXCEPT ![r] = Applied(w, 0 - cmd[r].amount)]
            /\ pc' = [pc EXCEPT ![r] = "d_save"]
  /\ UNCHANGED <<events, redis, sagas, cmd, resp, fails, queue, readModel, fraud, expiry>>

\* debitSourceWallet: findById, wallet.withdraw
DebitLoad(r) ==
  /\ pc[r] = "d_load"
  /\ LET w == findById(events, cmd[r].from) IN
       IF InsufficientFunds(w.bal, cmd[r].amount)
       THEN Catch(r, "insufficient", "d_fail")
       ELSE /\ loc' = [loc EXCEPT ![r] = Applied(w, 0 - cmd[r].amount)]
            /\ pc' = [pc EXCEPT ![r] = "d_save"]
  /\ UNCHANGED <<events, redis, sagas, cmd, resp, fails, queue, readModel, fraud, expiry>>

\* debitSourceWallet: walletRepository.save, publishSourceWalletDebited
DebitSave(r) ==
  /\ pc[r] = "d_save"
  /\ LET ev == [type |-> "MoneyWithdrawnEvent", amount |-> cmd[r].amount, tx |-> Tx(r, "debit")]
         expectedVersion == loc[r].ver - 1
     IN
       IF UniqueViolated(events, cmd[r].from, expectedVersion, 1)
       THEN /\ Catch(r, "conflict", "d_fail")
            /\ UNCHANGED <<events, fails, queue>>
       ELSE /\ events' = events \cup saveEvents(cmd[r].from, <<ev>>, expectedVersion)
            /\ \/ /\ publish(Message("SourceWalletDebitedEvent", cmd[r].from, ev.amount, ev.tx,
                                     loc[r].bal))
                  /\ pc' = [pc EXCEPT ![r] = "d_set"]
                  /\ loc' = [loc EXCEPT ![r] = NoLoc]
                  /\ UNCHANGED fails
               \/ /\ PublishThrows
                  /\ fails' = fails + 1
                  /\ Catch(r, "publish", "d_fail")
                  /\ UNCHANGED queue
  /\ UNCHANGED <<redis, sagas, cmd, resp, readModel, fraud, expiry>>

\* execute, step 2: sagaRepository.setSourceDebited
SetSourceDebited(r) ==
  /\ pc[r] = "d_set"
  /\ sagas' = [sagas EXCEPT ![r] =
                 [updateStatus(sagas[r], "SOURCE_DEBITED") EXCEPT !.debitTx = "debit"]]
  /\ pc' = [pc EXCEPT ![r] = "c_load"]
  /\ UNCHANGED <<events, redis, cmd, loc, resp, fails, queue, readModel, fraud, expiry>>

\* execute, catch of step 2: updateStatus(FAILED), publishTransferFailed, return
DebitFailed(r) ==
  /\ pc[r] = "d_fail"
  /\ sagas' = [sagas EXCEPT ![r] = updateStatus(sagas[r], "FAILED")]
  /\ \/ /\ publish(Info("TransferFailedEvent", r))
        /\ Return(r, Body(r, FALSE, "debit_failed"))
        /\ loc' = [loc EXCEPT ![r] = NoLoc]
        /\ UNCHANGED fails
     \/ /\ PublishThrows
        /\ fails' = fails + 1
        /\ Throw(r, "publish")
        /\ UNCHANGED <<resp, queue>>
  /\ UNCHANGED <<events, redis, cmd, readModel, fraud, expiry>>

\* mutant: the credit is prepared on the aggregate as it was loaded for the
\* debit, so its version is the version of the debit
CreditLoadStale(r) ==
  /\ pc[r] = "c_load"
  /\ loc' = [loc EXCEPT ![r] =
                [Applied(findById(events, cmd[r].to), cmd[r].amount) EXCEPT
                   !.ver = findById(events, cmd[r].to).ver]]
  /\ pc' = [pc EXCEPT ![r] = "c_save"]
  /\ UNCHANGED <<events, redis, sagas, cmd, resp, fails, queue, readModel, fraud, expiry>>

\* creditDestinationWallet: findById, wallet.deposit
CreditLoad(r) ==
  /\ pc[r] = "c_load"
  /\ loc' = [loc EXCEPT ![r] = Applied(findById(events, cmd[r].to), cmd[r].amount)]
  /\ pc' = [pc EXCEPT ![r] = "c_save"]
  /\ UNCHANGED <<events, redis, sagas, cmd, resp, fails, queue, readModel, fraud, expiry>>

\* creditDestinationWallet: walletRepository.save, publishDestinationWalletCredited
CreditSave(r) ==
  /\ pc[r] = "c_save"
  /\ LET ev == [type |-> "MoneyDepositedEvent", amount |-> cmd[r].amount, tx |-> Tx(r, "credit")]
         expectedVersion == loc[r].ver - 1
     IN
       IF UniqueViolated(events, cmd[r].to, expectedVersion, 1)
       THEN /\ Catch(r, "conflict", "comp_set")
            /\ UNCHANGED <<events, fails, queue>>
       ELSE /\ events' = events \cup saveEvents(cmd[r].to, <<ev>>, expectedVersion)
            /\ \/ /\ publish(Message("DestinationWalletCreditedEvent", cmd[r].to, ev.amount,
                                     ev.tx, loc[r].bal))
                  /\ pc' = [pc EXCEPT ![r] = "c_set"]
                  /\ loc' = [loc EXCEPT ![r] = NoLoc]
                  /\ UNCHANGED fails
               \/ /\ PublishThrows
                  /\ fails' = fails + 1
                  /\ Catch(r, "publish", "comp_set")
                  /\ UNCHANGED queue
  /\ UNCHANGED <<redis, sagas, cmd, resp, readModel, fraud, expiry>>

\* execute, step 3: setCompleted, publishTransferCompleted, return
SetCompleted(r) ==
  /\ pc[r] = "c_set"
  /\ sagas' = [sagas EXCEPT ![r] =
                 [updateStatus(sagas[r], "COMPLETED") EXCEPT !.creditTx = "credit"]]
  /\ \/ /\ publish(Info("TransferCompletedEvent", r))
        /\ Return(r, Body(r, TRUE, "ok"))
        /\ UNCHANGED <<loc, fails>>
     \/ /\ PublishThrows
        /\ fails' = fails + 1
        /\ Catch(r, "publish", "comp_set")
        /\ UNCHANGED <<resp, queue>>
  /\ UNCHANGED <<events, redis, cmd, readModel, fraud, expiry>>

\* execute, step 4: setCompensating, publishCompensationInitiated
SetCompensating(r) ==
  /\ pc[r] = "comp_set"
  /\ sagas' = [sagas EXCEPT ![r] = updateStatus(sagas[r], "COMPENSATING")]
  /\ \/ /\ publish(Info("CompensationInitiatedEvent", r))
        /\ pc' = [pc EXCEPT ![r] = "r_load"]
        /\ loc' = [loc EXCEPT ![r] = NoLoc]
        /\ UNCHANGED fails
     \/ /\ PublishThrows
        /\ fails' = fails + 1
        /\ Throw(r, "publish")
        /\ UNCHANGED queue
  /\ UNCHANGED <<events, redis, cmd, resp, readModel, fraud, expiry>>

\* compensateSourceWallet: findById, wallet.deposit
RefundLoad(r) ==
  /\ pc[r] = "r_load"
  /\ loc' = [loc EXCEPT ![r] = Applied(findById(events, cmd[r].from), cmd[r].amount)]
  /\ pc' = [pc EXCEPT ![r] = "r_save"]
  /\ UNCHANGED <<events, redis, sagas, cmd, resp, fails, queue, readModel, fraud, expiry>>

\* compensateSourceWallet: walletRepository.save, publishSourceWalletRefunded
RefundSave(r) ==
  /\ pc[r] = "r_save"
  /\ LET ev == [type |-> "MoneyDepositedEvent", amount |-> cmd[r].amount, tx |-> Tx(r, "refund")]
         expectedVersion == loc[r].ver - 1
     IN
       IF UniqueViolated(events, cmd[r].from, expectedVersion, 1)
       THEN /\ Catch(r, "conflict", "crit")
            /\ UNCHANGED <<events, fails, queue>>
       ELSE /\ events' = events \cup saveEvents(cmd[r].from, <<ev>>, expectedVersion)
            /\ \/ /\ publish(Message("SourceWalletRefundedEvent", cmd[r].from, ev.amount,
                                     ev.tx, loc[r].bal))
                  /\ pc' = [pc EXCEPT ![r] = "r_set"]
                  /\ loc' = [loc EXCEPT ![r] = NoLoc]
                  /\ UNCHANGED fails
               \/ /\ PublishThrows
                  /\ fails' = fails + 1
                  /\ Catch(r, "publish", "crit")
                  /\ UNCHANGED queue
  /\ UNCHANGED <<redis, sagas, cmd, resp, readModel, fraud, expiry>>

\* execute, step 4: setFailed, publishTransferFailed, return
SetFailed(r) ==
  /\ pc[r] = "r_set"
  /\ sagas' = [sagas EXCEPT ![r] =
                 [updateStatus(sagas[r], "FAILED") EXCEPT !.compTx = "refund"]]
  /\ \/ /\ publish(Info("TransferFailedEvent", r))
        /\ Return(r, Body(r, FALSE, "refunded"))
        /\ UNCHANGED <<loc, fails>>
     \/ /\ PublishThrows
        /\ fails' = fails + 1
        /\ Catch(r, "publish", "crit")
        /\ UNCHANGED <<resp, queue>>
  /\ UNCHANGED <<events, redis, cmd, readModel, fraud, expiry>>

\* mutant: the catch of the compensation marks the saga FAILED
CompensationFailedMarksFailed(r) ==
  /\ pc[r] = "crit"
  /\ sagas' = [sagas EXCEPT ![r] = updateStatus(sagas[r], "FAILED")]
  /\ Return(r, Body(r, FALSE, "critical"))
  /\ loc' = [loc EXCEPT ![r] = NoLoc]
  /\ UNCHANGED <<events, redis, cmd, fails, queue, readModel, fraud, expiry>>

\* execute, catch of the compensation: updateStatus(COMPENSATING), return CRITICAL
CompensationFailed(r) ==
  /\ pc[r] = "crit"
  /\ sagas' = [sagas EXCEPT ![r] = updateStatus(sagas[r], "COMPENSATING")]
  /\ Return(r, Body(r, FALSE, "critical"))
  /\ loc' = [loc EXCEPT ![r] = NoLoc]
  /\ UNCHANGED <<events, redis, cmd, fails, queue, readModel, fraud, expiry>>

\* ------------------------------------------- event store: batch append
\* the events a caller hands to saveEvents in one call: deposits numbered
\* i of n
BatchEvents(b, amounts) ==
  [i \in DOMAIN amounts |->
     [type |-> "MoneyDepositedEvent", amount |-> amounts[i], tx |-> Tx(b, <<i, Len(amounts)>>)]]

\* EventStoreService.saveEvents called by caller b with a batch of n events
\* and any expected version; a rejected save throws
AppendBatch(b) ==
  /\ pc[b] = "idle"
  /\ \E agg \in Wallets, expectedVersion \in 0 .. MaxBatch, n \in 1 .. MaxBatch :
       \E amounts \in [1 .. n -> Amounts] :
         LET rows == saveEvents(agg, BatchEvents(b, amounts), expectedVersion) IN
           /\ events' = eventStoreRepositorySave(events, rows)
           /\ loc' = [loc EXCEPT ![b] =
                        [NoLoc EXCEPT !.ver = expectedVersion,
                                      !.err = IF UniqueViolated(events, agg, expectedVersion, n)
                                              THEN "conflict" ELSE "none"]]
  /\ pc' = [pc EXCEPT ![b] = "done"]
  /\ UNCHANGED <<redis, sagas, cmd, resp, fails, queue, readModel, fraud, expiry>>

\* -------------------------------------------------------- fraud service
\* FraudEventConsumer.extractWalletIds on the data of a wallet event
extractWalletIds(data) == {data.walletId}

\* FraudRepository.trackEvent: insert a recent_events row (generated id)
trackEvent(table, dto) ==
  Append(table, [walletId |-> dto.walletId, eventType |-> dto.eventType,
                 amount |-> dto.amount, transactionId |-> dto.transactionId])

\* FraudRepository.getRecentTransactionCount; every row of a run lies inside
\* the time window
getRecentTransactionCount(table, walletId) ==
  Cardinality({ i \in DOMAIN table : table[i].walletId = walletId })

\* FraudRepository.hasRecentDeposit
hasRecentDeposit(table, walletId) ==
  \E i \in DOMAIN table :
    table[i].walletId = walletId /\ table[i].eventType = "MoneyDepositedEvent"

\* the three rules of the engine on the facts of one event
Rules(facts) ==
  << [ruleId |-> FRAUD_RULES.LARGE_TRANSACTION.ID, severity |-> "HIGH",
      triggered |-> facts.amount > FRAUD_RULES.LARGE_TRANSACTION.THRESHOLD],
     [ruleId |-> FRAUD_RULES.HIGH_VELOCITY.ID, severity |-> "MEDIUM",
      triggered |-> facts.recentTransactionCount > FRAUD_RULES.HIGH_VELOCITY.TRANSACTION_COUNT],
     [ruleId |-> FRAUD_RULES.RAPID_WITHDRAWAL.ID, severity |-> "HIGH",
      triggered |-> facts.isWithdrawal /\ facts.hasRecentDeposit] >>

Triggered(rule) == rule.triggered

\* FraudRulesService.evaluateRules: the alerts of the rules that fire
evaluateRules(table, context) ==
  SelectSeq(Rules([amount |-> context.amount,
                   recentTransactionCount |-> getRecentTransactionCount(table, context.walletId),
                   hasRecentDeposit |-> hasRecentDeposit(table, context.walletId),
                   isWithdrawal |-> context.eventType = "MoneyWithdrawnEvent"]),
            Triggered)

\* FraudRepository.createAlert: insert an alerts row (generated id)
createAlert(table, dto) == Append(table, dto)

\* mutant: the boundaries belong to the higher level
calculateRiskLevelStrict(score) ==
  IF score < RISK_THRESHOLDS.LOW THEN "LOW"
  ELSE IF score < RISK_THRESHOLDS.MEDIUM THEN "MEDIUM"
  ELSE IF score < RISK_THRESHOLDS.HIGH THEN "HIGH"
  ELSE "CRITICAL"

\* RiskProfileService.calculateRiskLevel
calculateRiskLevel(score) ==
  IF score <= RISK_THRESHOLDS.LOW THEN "LOW"
  ELSE IF score <= RISK_THRESHOLDS.MEDIUM THEN "MEDIUM"
  ELSE IF score <= RISK_THRESHOLDS.HIGH THEN "HIGH"
  ELSE "CRITICAL"

\* FraudRepository.createRiskProfile
createRiskProfile == [riskScore |-> 0, riskLevel |-> "LOW", alertCount |-> 0]

Min(a, b) == IF a <= b THEN a ELSE b

\* RiskProfileService.updateRiskProfile: get or create, add the score of the
\* severity clamped to 100, recompute the level, count the alert
updateRiskProfile(profiles, walletId, alertSeverity) ==
  LET profile == IF profiles[walletId] = NoProfile THEN createRiskProfile
                 ELSE profiles[walletId]
      newScore == Min(profile.riskScore + SEVERITY_SCORES[alertSeverity], 100)
  IN [profiles EXCEPT ![walletId] =
        [riskScore |-> newScore,
         riskLevel |-> calculateRiskLevel(newScore),
         alertCount |-> profile.alertCount + 1]]

\* the row createAlert gets for a triggered rule
AlertDto(walletId, rule, message) ==
  [walletId |-> walletId, ruleId |-> rule.ruleId, severity |-> rule.severity,
   transactionId |-> message.transactionId, eventType |-> message.eventType]

RECURSIVE saveAlerts(_, _, _, _)
\* processEvent, loop over the alerts: createAlert for each of them
saveAlerts(table, walletId, triggered, message) ==
  IF triggered = <<>> THEN table
  ELSE saveAlerts(createAlert(table, AlertDto(walletId, Head(triggered), message)),
                  walletId, Tail(triggered), message)

RECURSIVE updateProfiles(_, _, _)
\* processEvent, loop over the alerts: updateRiskProfile for each of them
updateProfiles(profiles, walletId, triggered) ==
  IF triggered = <<>> THEN profiles
  ELSE updateProfiles(updateRiskProfile(profiles, walletId, Head(triggered).severity),
                      walletId, Tail(triggered))

\* a wallet event is published and the exchange routes it to
\* fraud.events.queue; every event has a transaction id of its own
FraudPublish ==
  /\ fraudPublished < MaxEvents
  /\ \E eventType \in FraudEventTypes, amount \in FraudAmounts :
       fraudQueue' = Append(fraudQueue,
                            [eventType |-> eventType, walletId |-> "w1", amount |-> amount,
                             transactionId |-> Tx(fraudPublished + 1, "cmd")])
  /\ fraudPublished' = fraudPublished + 1
  /\ UNCHANGED <<recentEvents, alerts, riskProfiles, fraudRedelivered>>
  /\ UNCHANGED <<events, redis, sagas, pc, cmd, loc, resp, fails, queue, readModel, expiry>>

\* ack() of the fraud consumer: the broker drops the message, or the
\* connection is lost before the ack arrives and the message is delivered again
fraudAck ==
  \/ /\ fraudQueue' = Tail(fraudQueue)
     /\ UNCHANGED fraudRedelivered
  \/ /\ fraudRedelivered < MaxRedeliver
     /\ fraudRedelivered' = fraudRedelivered + 1
     /\ UNCHANGED fraudQueue

\* FraudEventConsumer: the broker delivers the head of the queue (prefetch 1),
\* processEvent tracks the event, evaluates the rules, stores the alerts and
\* updates the risk profile, then ack()
ProcessEvent ==
  /\ fraudQueue # <<>>
  /\ LET message == Head(fraudQueue) IN
       IF message.eventType \notin transactionalEvents
       THEN UNCHANGED <<recentEvents, alerts, riskProfiles>>
       ELSE \E walletId \in extractWalletIds(message) :
              LET tracked == trackEvent(recentEvents, message)
                  triggered == evaluateRules(tracked, message)
              IN /\ recentEvents' = tracked
                 /\ alerts' = saveAlerts(alerts, walletId, triggered, message)
                 /\ riskProfiles' = updateProfiles(riskProfiles, walletId, triggered)
  /\ fraudAck
  /\ UNCHANGED fraudPublished
  /\ UNCHANGED <<events, redis, sagas, pc, cmd, loc, resp, fails, queue, readModel, expiry>>

\* ------------------------------------------- idempotency records: expiry
\* redis.set(key, value, 'EX', ttlSeconds): the entry is replaced and expires
\* ttlSeconds after the call
setEx(store, key, record, t) ==
  [store EXCEPT ![key] = [status |-> record.status, createdAt |-> record.createdAt,
                          expiresAt |-> t + TtlSeconds]]

\* Redis drops the entries whose time to live is over at time t
expire(store, t) ==
  [k \in Keys |-> IF store[k] # NoEntry /\ store[k].expiresAt <= t THEN NoEntry ELSE store[k]]

\* checkAndLock of a first request with key k: GET finds nothing, SET NX EX
\* stores IN_PROGRESS with createdAt = now
LockWithTtl(k) ==
  /\ holder[k].state = "idle"
  /\ redisTtl[k] = NoEntry
  /\ redisTtl' = setEx(redisTtl, k, [status |-> "IN_PROGRESS", createdAt |-> now], now)
  /\ holder' = [holder EXCEPT ![k] = [state |-> "running", lockedAt |-> now]]
  /\ UNCHANGED now
  /\ UNCHANGED <<events, redis, sagas, pc, cmd, loc, resp, fails, queue, readModel, fraud>>

\* mutant: the response is stored under the createdAt and the expiry of the
\* lock it replaces
CompleteKeepsTtl(k) ==
  /\ holder[k].state = "running"
  /\ redisTtl' = [redisTtl EXCEPT ![k] =
                    [status |-> "COMPLETED", createdAt |-> holder[k].lockedAt,
                     expiresAt |-> holder[k].lockedAt + TtlSeconds]]
  /\ holder' = [holder EXCEPT ![k].state = "idle"]
  /\ UNCHANGED now
  /\ UNCHANGED <<events, redis, sagas, pc, cmd, loc, resp, fails, queue, readModel, fraud>>

\* IdempotencyService.complete: a new record with createdAt = now is SET with EX
CompleteWithTtl(k) ==
  /\ holder[k].state = "running"
  /\ redisTtl' = setEx(redisTtl, k, [status |-> "COMPLETED", createdAt |-> now], now)
  /\ holder' = [holder EXCEPT ![k].state = "idle"]
  /\ UNCHANGED now
  /\ UNCHANGED <<events, redis, sagas, pc, cmd, loc, resp, fails, queue, readModel, fraud>>

\* IdempotencyService.release: DEL
ReleaseWithTtl(k) ==
  /\ holder[k].state = "running"
  /\ redisTtl' = [redisTtl EXCEPT ![k] = NoEntry]
  /\ holder' = [holder EXCEPT ![k].state = "idle"]
  /\ UNCHANGED now
  /\ UNCHANGED <<events, redis, sagas, pc, cmd, loc, resp, fails, queue, readModel, fraud>>

\* a second passes
Tick ==
  /\ now < MaxTime
  /\ now' = now + 1
  /\ redisTtl' = expire(redisTtl, now + 1)
  /\ UNCHANGED holder
  /\ UNCHANGED <<events, redis, sagas, pc, cmd, loc, resp, fails, queue, readModel, fraud>>

\* the idempotency store with its clock, one request at a time per key
NextTtl == Tick \/ \E k \in Keys : LockWithTtl(k) \/ CompleteWithTtl(k) \/ ReleaseWithTtl(k)

SpecTtl == Init /\ [][NextTtl]_vars

\* ------------------------------------------- query service: projection
\* Repository.save: INSERT, or UPDATE of the row that has the primary key
save(table, entity) == { x \in table : x.id # entity.id } \cup {entity}

\* WalletReadRepository.upsertWallet: the balance is set, not incremented
upsertWallet(table, walletId, balance) ==
  LET wallet == { x \in table : x.id = walletId } IN
    IF wallet = {}
    THEN save(table, [id |-> walletId, balance |-> balance])
    ELSE save(table, [(CHOOSE x \in wallet : TRUE) EXCEPT !.balance = balance])

\* TRANSACTION_TYPES of the row a handler of WalletEventConsumer writes
TransactionType(eventType) ==
  CASE eventType = "MoneyDepositedEvent" -> "DEPOSIT"
    [] eventType = "MoneyWithdrawnEvent" -> "WITHDRAWAL"
    [] eventType = "SourceWalletDebitedEvent" -> "TRANSFER_OUT"
    [] eventType = "DestinationWalletCreditedEvent" -> "TRANSFER_IN"
    [] eventType = "SourceWalletRefundedEvent" -> "REFUND"
    [] OTHER -> "NONE"

\* the row handleMoneyDeposited and its siblings pass to addTransaction
Transaction(data) ==
  [id |-> data.transactionId, walletId |-> data.walletId,
   type |-> TransactionType(data.eventType), amount |-> data.amount,
   balanceAfter |-> data.balanceAfter]

\* mutant: a row that exists is added to, not replaced
addTransactionAdding(table, transaction) ==
  LET old == { x \in table : x.id = transaction.id } IN
    IF old = {} THEN save(table, transaction)
    ELSE save(table, [transaction EXCEPT
                        !.amount = transaction.amount + (CHOOSE x \in old : TRUE).amount])

\* WalletReadRepository.addTransaction: transactionRepository.save(entity)
addTransaction(table, transaction) == save(table, transaction)

\* channel.ack(msg): the broker drops the message, unless the channel closes
\* before the acknowledgement arrives and the broker delivers it again
ack ==
  \/ /\ queue' = Tail(queue)
     /\ UNCHANGED redelivered
  \/ /\ redelivered < MaxRedeliver
     /\ redelivered' = redelivered + 1
     /\ UNCHANGED queue

\* mutant: the handler fails and the message is dead-lettered (nack without
\* requeue)
HandleEventDeadLetters ==
  /\ consumer = "idle"
  /\ queue # <<>>
  /\ queue' = Tail(queue)
  /\ UNCHANGED <<events, redis, sagas, pc, cmd, loc, resp, fails, readModel, fraud, expiry>>

\* the broker delivers the head of the queue (prefetch 1); handleEvent
\* dispatches on the event type to a handler, which starts with upsertWallet
HandleEvent ==
  /\ consumer = "idle"
  /\ queue # <<>>
  /\ LET message == Head(queue) IN
       /\ walletRead' = upsertWallet(walletRead, message.walletId, message.balanceAfter)
       /\ consumer' = "addTransaction"
  /\ UNCHANGED <<events, redis, sagas, pc, cmd, loc, resp, fails, queue, txRead, redelivered, dlq, fraud, expiry>>

\* the handler's addTransaction, then ack()
AddTransaction ==
  /\ consumer = "addTransaction"
  /\ txRead' = addTransaction(txRead, Transaction(Head(queue)))
  /\ consumer' = "idle"
  /\ ack
  /\ UNCHANGED <<events, redis, sagas, pc, cmd, loc, resp, fails, walletRead, dlq, fraud, expiry>>

\* mutant: the consumer rejects with requeue = true, so the message stays at
\* the head of the main queue
nackRequeue(requeue) ==
  /\ UNCHANGED <<queue, dlq>>

\* nack(requeue) -> channel.nack(msg, false, requeue): with requeue = false
\* the broker routes the message through the dead-letter exchange to the
\* dead-letter queue
nack(requeue) ==
  IF requeue
  THEN UNCHANGED <<queue, dlq>>
  ELSE /\ queue' = Tail(queue)
       /\ dlq' = Append(dlq, Head(queue))

\* the database rejects the first write of the handler (upsertWallet
\* throws): the catch block of startConsuming calls nack(false)
UpsertWalletThrows ==
  /\ consumer = "idle"
  /\ queue # <<>>
  /\ nack(FALSE)
  /\ UNCHANGED <<events, redis, sagas, pc, cmd, loc, resp, fails, walletRead, txRead, consumer,
                 redelivered, fraud, expiry>>

\* upsertWallet has been written and addTransaction throws: no transaction
\* spans the two writes; the catch block of startConsuming calls nack(false)
AddTransactionThrows ==
  /\ consumer = "addTransaction"
  /\ consumer' = "idle"
  /\ nack(FALSE)
  /\ UNCHANGED <<events, redis, sagas, pc, cmd, loc, resp, fails, walletRead, txRead,
                 redelivered, fraud, expiry>>

Next ==
  \E r \in Pair :
    \/ CheckGet(r, Commands)
    \/ CheckSetNx(r)
    \/ CheckReGet(r)
    \/ Load(r)
    \/ Save(r)
    \/ SagaCreate(r)
    \/ DebitLoad(r)
    \/ DebitSave(r)
    \/ SetSourceDebited(r)
    \/ DebitFailed(r)
    \/ CreditLoad(r)
    \/ CreditSave(r)
    \/ SetCompleted(r)
    \/ SetCompensating(r)
    \/ RefundLoad(r)
    \/ RefundSave(r)
    \/ SetFailed(r)
    \/ CompensationFailed(r)
    \/ Complete(r)
    \/ Release(r)

Spec == Init /\ [][Next]_vars

\* three requests that carry the same key and act on the same wallet
KeyCommands == { c \in DepositCommands \cup WithdrawCommands : c.from = "w1" /\ c.key = "k1" }

NextKey ==
  \E r \in Req :
    \/ CheckGet(r, KeyCommands)
    \/ CheckSetNx(r)
    \/ CheckReGet(r)
    \/ Load(r)
    \/ Save(r)
    \/ Complete(r)
    \/ Release(r)

SpecKey == Init /\ [][NextKey]_vars

\* the command side together with the projection consumer: two requests,
\* each under its own key
ProjCommands == { c \in Commands : c.from = "w1" /\ (c.kind = "transfer" => c.to = "w2") }

NextProj ==
  \/ \E r \in Pair :
       \/ CheckGet(r, { c \in ProjCommands : c.key = (IF r = 1 THEN "k1" ELSE "k2") })
       \/ CheckSetNx(r)
       \/ Load(r)
       \/ Save(r)
       \/ SagaCreate(r)
       \/ DebitLoad(r)
       \/ DebitSave(r)
       \/ SetSourceDebited(r)
       \/ DebitFailed(r)
       \/ CreditLoad(r)
       \/ CreditSave(r)
       \/ SetCompleted(r)
       \/ SetCompensating(r)
       \/ RefundLoad(r)
       \/ RefundSave(r)
       \/ SetFailed(r)
       \/ CompensationFailed(r)
       \/ Complete(r)
       \/ Release(r)
  \/ HandleEvent
  \/ AddTransaction

SpecProj == Init /\ [][NextProj]_vars

\* a command on "w1" and a concurrent deposit into it, with the consumer
FairCommands(r) ==
  { c \in ProjCommands : IF r = 1 THEN c.key = "k1" ELSE c.key = "k2" /\ c.kind = "deposit" }

NextFair ==
  \/ \E r \in Pair :
       \/ CheckGet(r, FairCommands(r))
       \/ CheckSetNx(r)
       \/ Load(r)
       \/ Save(r)
       \/ SagaCreate(r)
       \/ DebitLoad(r)
       \/ DebitSave(r)
       \/ SetSourceDebited(r)
       \/ DebitFailed(r)
       \/ CreditLoad(r)
       \/ CreditSave(r)
       \/ SetCompleted(r)
       \/ SetCompensating(r)
       \/ RefundLoad(r)
       \/ RefundSave(r)
       \/ SetFailed(r)
       \/ CompensationFailed(r)
       \/ Complete(r)
       \/ Release(r)
  \/ HandleEvent
  \/ AddTransaction

\* callers of the event store that append batches, nothing else running
NextBatch == \E b \in Pair : AppendBatch(b)

SpecBatch == Init /\ [][NextBatch]_vars

\* the projection consumer with a database that may reject a write
NextDlq == NextFair \/ UpsertWalletThrows \/ AddTransactionThrows

SpecDlq == Init /\ [][NextDlq]_vars

\* the steps of a request that has arrived: continuations of awaited calls
RequestStep(r) ==
  \/ CheckSetNx(r)
  \/ CheckReGet(r)
  \/ Load(r)
  \/ Save(r)
  \/ SagaCreate(r)
  \/ DebitLoad(r)
  \/ DebitSave(r)
  \/ SetSourceDebited(r)
  \/ DebitFailed(r)
  \/ CreditLoad(r)
  \/ CreditSave(r)
  \/ SetCompleted(r)
  \/ SetCompensating(r)
  \/ RefundLoad(r)
  \/ RefundSave(r)
  \/ SetFailed(r)
  \/ CompensationFailed(r)
  \/ Complete(r)
  \/ Release(r)

\* the gateway and the command service keep running: the event loop resumes
\* every request whose awaited call has returned
NextLive == \E r \in Pair : CheckGet(r, ProjCommands) \/ RequestStep(r)

SpecLive == Init /\ [][NextLive]_vars /\ \A r \in Pair : WF_vars(RequestStep(r))

\* the fraud service alone: events arrive on its queue and are processed
NextFraud == FraudPublish \/ ProcessEvent

SpecFraud == InitFraud /\ [][NextFraud]_vars

\* the consumer is subscribed for as long as the query service runs: a
\* message at the head of the queue is delivered and its handler runs on
SpecProjFair == Init /\ [][NextFair]_vars /\ WF_vars(HandleEvent) /\ WF_vars(AddTransaction)

\* ================================================================ claims
EventsOf(r) == { e \in events : e.tx[1] = r }
Debits(w) == { e \in getEvents(events, w) : e.type = "MoneyWithdrawnEvent" }
LastVersion(w) == Cardinality(getEvents(events, w))
Responded(r) == pc[r] = "done"

\* C1: for every wallet and every committed version v, the balance folded from
\* the wallet's events up to v (deposits minus withdrawals) is >= 0, whatever
\* the interleaving of deposit, withdraw and transfer commands.
C1_BalanceNeverNegative ==
  \A w \in Wallets : \A v \in 0 .. LastVersion(w) : BalanceAt(events, w, v) >= 0

\* two debits raced for the last unit of a wallet: one committed and emptied
\* the wallet, the other was refused
C1_Witness ==
  \E w \in Wallets : \E r \in Pair, q \in Pair :
    /\ r # q
    /\ cmd[r].from = w /\ cmd[q].from = w
    /\ \E e \in Debits(w) : e.tx[1] = r
    /\ Balance(w) = 0
    /\ loc[q].err \in {"conflict", "insufficient"}

\* C3: at most one event exists for any (aggregate_id, version) pair: of two
\* appends made with the same expected version on the same aggregate at most
\* one has rows in the store, the other wrote nothing.
C3_UniqueAggregateVersion ==
  \A e1 \in events, e2 \in events :
    (e1.agg = e2.agg /\ e1.version = e2.version) => e1 = e2

\* an append lost the race: it was refused with a conflict and has no row,
\* while the version it asked for holds another request's event
C3_Witness ==
  \E r \in Pair :
    /\ loc[r].err = "conflict"
    /\ cmd[r].kind \in {"deposit", "withdraw"}
    /\ EventsOf(r) = {}
    /\ \E e \in getEvents(events, cmd[r].from) : e.tx[1] \notin {0, r}

\* C4: for every aggregate the versions of its committed events are exactly
\* 1..N, without gap or duplicate, after any mix of successful and
\* conflicting appends.
C4_VersionsContiguous ==
  \A w \in Wallets :
    /\ { e.version : e \in getEvents(events, w) } = 1 .. LastVersion(w)
    /\ \A e1 \in getEvents(events, w), e2 \in getEvents(events, w) :
         e1.version = e2.version => e1 = e2

\* a wallet holds three events although one append on it was refused
C4_Witness ==
  \E w \in Wallets :
    /\ LastVersion(w) >= 3
    /\ \E r \in Pair : loc[r].err = "conflict" /\ cmd[r].from = w /\ cmd[r].kind # "transfer"

\* balance a wallet was funded with before the requests arrived
InitBalance(w) == replay({ e \in getEvents(events, w) : e.tx[1] = 0 })

\* both requests are debits (withdraw or transfer-out) of wallet w for its whole balance
DebitRace(w) ==
  /\ InitBalance(w) > 0
  /\ \A r \in Pair :
       /\ cmd[r].kind \in {"withdraw", "transfer"}
       /\ cmd[r].from = w
       /\ cmd[r].amount = InitBalance(w)

SagaEffect(r, w) == replay(EventsOf(r) \cap getEvents(events, w))

\* C5: a saga whose persisted status is COMPLETED moved exactly `amount` from
\* the source to the destination, and a saga whose persisted status is FAILED
\* left both balances as they were: the saga's committed events sum to zero
\* over the two wallets.
C5_SagaConservesMoney ==
  \A r \in Pair :
    /\ sagas[r].status = "COMPLETED" =>
         IF cmd[r].from = cmd[r].to
         THEN SagaEffect(r, cmd[r].from) = 0
         ELSE /\ SagaEffect(r, cmd[r].from) = 0 - cmd[r].amount
              /\ SagaEffect(r, cmd[r].to) = cmd[r].amount
    /\ sagas[r].status = "FAILED" => \A w \in Wallets : SagaEffect(r, w) = 0

\* C6: when a transfer A->B and a transfer B->A, each for an amount both
\* wallets can afford, ran concurrently and both have responded, then
\* balance(A) + balance(B) is what it was before and neither is negative
\* (stated here for runs in which the broker accepted every publish).
C6_OppositeTransfersConserve ==
  \A a \in Wallets, b \in Wallets :
    ( /\ a # b
      /\ cmd[1].kind = "transfer" /\ cmd[1].from = a /\ cmd[1].to = b
      /\ cmd[2].kind = "transfer" /\ cmd[2].from = b /\ cmd[2].to = a
      /\ \A r \in Pair : cmd[r].amount <= InitBalance(a) /\ cmd[r].amount <= InitBalance(b)
      /\ \A r \in Pair : Responded(r)
      /\ fails = 0 )
      => /\ Balance(a) + Balance(b) = InitBalance(a) + InitBalance(b)
         /\ Balance(a) >= 0
         /\ Balance(b) >= 0

\* C7: for any idempotency key, over all requests that carry it (client
\* retries after an error response included), at most one execution of the
\* command commits events.
C7_KeyAppliedAtMostOnce ==
  \A k \in Keys :
    Cardinality({ r \in Req : cmd[r].kind # "none" /\ cmd[r].key = k /\ EventsOf(r) # {} }) <= 1

\* the request is inside the command handler
Executing(r) ==
  pc[r] \in {"load", "save", "create", "d_load", "d_save", "d_set", "d_fail", "c_load",
             "c_save", "c_set", "comp_set", "r_load", "r_save", "r_set", "crit"}

\* C8: among concurrent requests that carry the same idempotency key at most
\* one is let through by the guard and executes the command at any time; the
\* others execute nothing.
C8_OneExecutorPerKey ==
  \A k \in Keys :
    Cardinality({ r \in Req : cmd[r].kind # "none" /\ cmd[r].key = k /\ Executing(r) }) <= 1

SagaTransitions ==
  { <<"NONE", "INITIATED">>,
    <<"INITIATED", "SOURCE_DEBITED">>, <<"INITIATED", "FAILED">>,
    <<"SOURCE_DEBITED", "COMPLETED">>, <<"SOURCE_DEBITED", "COMPENSATING">>,
    <<"COMPENSATING", "FAILED">> }

\* C10: every change of a saga's persisted status is INITIATED->SOURCE_DEBITED,
\* INITIATED->FAILED, SOURCE_DEBITED->COMPLETED, SOURCE_DEBITED->COMPENSATING
\* or COMPENSATING->FAILED (the creation of the row in INITIATED aside).
C10_SagaTransitions ==
  [][\A r \in Pair :
       sagas'[r].status # sagas[r].status
         => <<sagas[r].status, sagas'[r].status>> \in SagaTransitions]_vars

\* C11: once a saga's persisted status is COMPLETED or FAILED, no later write
\* changes its status.
C11_TerminalStatusNeverRewritten ==
  [][\A r \in Pair :
       sagas[r].status \in {"COMPLETED", "FAILED"} => sagas'[r].status = sagas[r].status]_vars

\* C12: at the moment the originating transfer request has its response
\* (success, failure or error), the status of the saga it started is neither
\* INITIATED nor SOURCE_DEBITED.
C12_NoPendingSagaAfterResponse ==
  \A r \in Pair :
    (Responded(r) /\ sagas[r].status # "NONE")
      => sagas[r].status \notin {"INITIATED", "SOURCE_DEBITED"}

\* the events a saga committed in one of its steps
StepEvents(store, r, step) == { e \in store : e.tx = Tx(r, step) }

\* C13: a saga's credit event is committed to the destination wallet only
\* after the saga's debit event has been committed to the source wallet: the
\* step that appends the credit finds the debit in the log.
C13_CreditOnlyAfterDebit ==
  [][\A r \in Pair :
       (StepEvents(events', r, "credit") # {} /\ StepEvents(events, r, "credit") = {})
         => /\ \E d \in StepEvents(events, r, "debit") :
                 /\ d.agg = cmd[r].from
                 /\ d.type = "MoneyWithdrawnEvent"
                 /\ d.amount = cmd[r].amount
            /\ \A c \in StepEvents(events', r, "credit") :
                 c.agg = cmd[r].to /\ c.amount = cmd[r].amount]_vars

\* a transfer between two wallets has committed its debit and its credit
C13_Witness ==
  \E r \in Pair :
    /\ cmd[r].kind = "transfer"
    /\ cmd[r].from # cmd[r].to
    /\ StepEvents(events, r, "debit") # {}
    /\ StepEvents(events, r, "credit") # {}

\* C14: when a saga goes from INITIATED to FAILED (the debit-failure path, on
\* which no compensation runs), no event of that saga is committed to either
\* wallet.
C14_DebitFailureCommitsNothing ==
  [][\A r \in Pair :
       (sagas[r].status = "INITIATED" /\ sagas'[r].status = "FAILED")
         => { e \in events' : e.tx[1] = r } = {}]_vars

\* C15: when a saga has committed its refund after a failed credit and its
\* request has responded, the saga is FAILED with a compensation transaction
\* id, the response is success:false, and the saga's events on the source
\* wallet sum to zero.
C15_RefundedSagaIsFailed ==
  \A r \in Pair :
    (Responded(r) /\ StepEvents(events, r, "refund") # {})
      => /\ sagas[r].status = "FAILED"
         /\ sagas[r].compTx = "refund"
         /\ resp[r].body.origin = r
         /\ ~ resp[r].body.success
         /\ (cmd[r].from # cmd[r].to => SagaEffect(r, cmd[r].from) = 0)

\* compensateSourceWallet threw: the request is in the catch of the
\* compensation, or has answered from it, and setFailed never ran
RefundFailed(r) ==
  /\ sagas[r].compTx = "none"
  /\ \/ pc[r] = "crit"
     \/ /\ pc[r] \in {"complete", "done"}
        /\ resp[r].body.origin = r
        /\ resp[r].body.msg = "critical"

\* C16: when the compensating refund itself fails, the saga's status stays
\* COMPENSATING (it is not FAILED and not COMPLETED) and the caller receives
\* success:false with the CRITICAL message.
C16_FailedRefundStaysCompensating ==
  \A r \in Pair :
    RefundFailed(r)
      => /\ sagas[r].status = "COMPENSATING"
         /\ pc[r] # "crit" => (resp[r].status = "CREATED" /\ ~ resp[r].body.success)

\* a refund lost the version race and the request answered CRITICAL
C16_Witness ==
  \E r \in Pair :
    /\ RefundFailed(r)
    /\ Responded(r)
    /\ StepEvents(events, r, "refund") = {}
    /\ StepEvents(events, r, "debit") # {}
    /\ sagas[r].status = "COMPENSATING"

\* the requests are deposits and withdrawals on wallet w, each under its own
\* key, and all have their response
WalletRace(w) ==
  /\ \A r \in Pair : cmd[r].kind \in {"deposit", "withdraw"} /\ cmd[r].from = w /\ Responded(r)
  /\ cmd[1].key # cmd[2].key

Succeeded(r) == resp[r].status = "CREATED" /\ resp[r].body.success

Delta(r) == IF cmd[r].kind = "deposit" THEN cmd[r].amount ELSE 0 - cmd[r].amount

RECURSIVE SumDelta(_)
SumDelta(R) ==
  IF R = {} THEN 0
  ELSE LET r == CHOOSE x \in R : TRUE IN Delta(r) + SumDelta(R \ {r})

\* C17: no update is lost: after concurrent deposits and withdrawals on one
\* wallet, the folded balance is the initial balance plus the deposits that
\* reported success minus the withdrawals that reported success; a command
\* that reported success has exactly one committed event and one that
\* reported failure has none.
C17_NoLostUpdate ==
  \A w \in Wallets :
    WalletRace(w)
      => /\ Balance(w) = InitBalance(w) + SumDelta({ r \in Pair : Succeeded(r) })
         /\ \A r \in Pair :
              IF Succeeded(r) THEN Cardinality(EventsOf(r)) = 1 ELSE EventsOf(r) = {}

\* the messages of the queue that carry transaction id t
Queued(t) == { i \in DOMAIN queue : queue[i].transactionId = t }
Rows(table, id) == { x \in table : x.id = id }

\* C18: delivering an already-applied event to the projection consumer again
\* changes nothing in the transaction projection: it still holds exactly one
\* row for that transaction id, with the same content, and the handler ends
\* with the ack (the message leaves the queue when the ack reaches the broker).
C18_RedeliveryIsNoOp ==
  [][(consumer = "addTransaction" /\ consumer' = "idle"
        /\ Rows(txRead, Head(queue).transactionId) # {})
       => /\ txRead' = txRead
          /\ Cardinality(Rows(txRead', Head(queue).transactionId)) = 1
          /\ Rows(txRead', Head(queue).transactionId) = {Transaction(Head(queue))}
          /\ redelivered' = redelivered => queue' = Tail(queue)]_vars

\* the event of a request was delivered twice, applied twice and acknowledged
C18_Witness ==
  /\ redelivered > 0
  /\ consumer = "idle"
  /\ queue = <<>>
  /\ \E r \in Pair : Rows(txRead, Tx(r, "cmd")) # {}
  /\ \A r \in Pair : Responded(r) /\ cmd[r].kind # "transfer" /\ EventsOf(r) # {}
  /\ Cardinality(txRead) = Cardinality(events)

\* balance of a wallet in the read model (a wallet without row has none)
ProjectedBalance(w) ==
  IF Rows(walletRead, w) = {} THEN 0 ELSE (CHOOSE x \in Rows(walletRead, w) : TRUE).balance

\* every message published for wallet w has been handled and acknowledged
Delivered(w) == \A i \in DOMAIN queue : queue[i].walletId # w

\* C19: for every wallet, once every published event of the wallet has been
\* delivered to the projection consumer (duplicate deliveries allowed), the
\* projected balance equals the balance folded from the wallet's committed
\* event log.
C19_ProjectionMatchesLog ==
  \A w \in Wallets : Delivered(w) => ProjectedBalance(w) = Balance(w)

\* transaction ids of the events the requests can commit
TxIds == { Tx(r, step) : r \in Pair, step \in {"cmd", "debit", "credit", "refund"} }

GuardReads(r) == pc[r] \in {"idle", "reget"} /\ pc'[r] # pc[r]

\* C23: a request whose idempotency key is IN_PROGRESS is answered with HTTP
\* 409 (CONFLICT); it executes no command and the idempotency record is not
\* changed.
C23_InProgressIsConflict ==
  [][\A r \in Req :
       (GuardReads(r) /\ redis[cmd'[r].key].status = "IN_PROGRESS")
         => /\ pc'[r] = "done"
            /\ resp'[r].status = "CONFLICT"
            /\ ~ resp'[r].cached
            /\ redis' = redis
            /\ events' = events
            /\ sagas' = sagas
            /\ queue' = queue]_vars

\* a request was refused with 409 while the holder of the lock was executing
C23_Witness ==
  \E r \in Pair, q \in Pair :
    /\ r # q
    /\ resp[r].status = "CONFLICT"
    /\ pc[r] = "done"
    /\ cmd[q].key = cmd[r].key
    /\ Executing(q)
    /\ redis[cmd[r].key].status = "IN_PROGRESS"
    /\ EventsOf(r) = {}

\* C24: when the command of a request that holds the lock fails with an error,
\* the idempotency record is deleted, and a request that then arrives with
\* the key obtains the lock and is processed: it gets neither 409 nor a
\* cached response.
C24_ErrorReleasesKey ==
  [][\A r \in Req :
       /\ (pc[r] = "release" /\ pc'[r] # pc[r])
            => /\ redis'[cmd[r].key] = NoRec
               /\ resp'[r].status = "ERROR"
       /\ (GuardReads(r) /\ redis[cmd'[r].key] = NoRec)
            => /\ pc'[r] \in {"setnx", Start(cmd'[r])}
               /\ resp'[r] = NoResp
       /\ (pc[r] = "setnx" /\ pc'[r] # pc[r] /\ redis[cmd[r].key] = NoRec)
            => /\ pc'[r] = Start(cmd[r])
               /\ redis'[cmd[r].key].status = "IN_PROGRESS"]_vars

\* a withdrawal failed and released its key; the retry with the same key
\* took the lock and was executed
C24_Witness ==
  /\ cmd[1].key = cmd[2].key
  /\ resp[1].status = "ERROR"
  /\ loc[1].err = "insufficient"
  /\ resp[2].status = "CREATED"
  /\ resp[2].body.origin = 2
  /\ EventsOf(2) # {}

\* the stored response of a transfer that ended with success:false
FailedTransfer(body) ==
  /\ body.origin \in Pair
  /\ cmd[body.origin].kind = "transfer"
  /\ ~ body.success
  /\ body.msg \in {"debit_failed", "refunded", "critical"}

\* C25: a transfer that ends with success:false is stored as the COMPLETED
\* response of its idempotency key; a retry that finds it gets the same
\* failure result, starts no saga and changes no wallet.
C25_FailedTransferIsCached ==
  [][\A r \in Pair :
       /\ (pc[r] = "complete" /\ pc'[r] # pc[r] /\ FailedTransfer(resp[r].body))
            => redis'[cmd[r].key] = [status |-> "COMPLETED", response |-> resp[r].body]
       /\ (GuardReads(r) /\ redis[cmd'[r].key].status = "COMPLETED"
             /\ FailedTransfer(redis[cmd'[r].key].response))
            => /\ pc'[r] = "done"
               /\ resp'[r].cached
               /\ resp'[r].body = redis[cmd'[r].key].response
               /\ ~ resp'[r].body.success
               /\ sagas' = sagas
               /\ sagas[r].status = "NONE"
               /\ events' = events]_vars

\* the retry of a transfer that failed for insufficient funds was answered
\* from the cache with the same failure
C25_Witness ==
  \E r \in Pair, q \in Pair :
    /\ r # q
    /\ cmd[r].kind = "transfer" /\ cmd[q] = cmd[r]
    /\ resp[q].cached
    /\ resp[q].body = resp[r].body
    /\ resp[r].body.origin = r
    /\ ~ resp[r].body.success
    /\ sagas[r].status = "FAILED"
    /\ sagas[q].status = "NONE"

\* request 1 is a transfer of a wallet to itself that the wallet can afford,
\* it ran alone and the broker accepted every publish
SelfTransferAlone ==
  /\ cmd[1].kind = "transfer"
  /\ cmd[1].from = cmd[1].to
  /\ cmd[1].amount <= InitBalance(cmd[1].from)
  /\ Responded(1)
  /\ pc[2] = "idle"
  /\ fails = 0

C27_BalanceAfterIsFold ==
  \A i \in DOMAIN queue :
    \E e \in events :
      /\ e.tx = queue[i].transactionId
      /\ e.agg = queue[i].walletId
      /\ e.amount = queue[i].amount
      /\ queue[i].balanceAfter = BalanceAt(events, e.agg, e.version)

\* a deposit and a later withdrawal on the same wallet have been published
C27_Witness ==
  \E i \in DOMAIN queue, j \in DOMAIN queue :
    /\ i < j
    /\ queue[i].walletId = queue[j].walletId
    /\ queue[i].eventType = "MoneyDepositedEvent"
    /\ queue[j].eventType \in {"MoneyWithdrawnEvent", "SourceWalletDebitedEvent"}
    /\ queue[i].transactionId[1] # queue[j].transactionId[1]
    /\ queue[i].balanceAfter > queue[j].balanceAfter

\* a request was answered from the cache
Replayed(r) == pc[r] = "done" /\ resp[r].cached

WholeBatch(b, e) ==
  \E agg \in Wallets, n \in 1 .. MaxBatch :
    /\ Cardinality(EventsOf(b)) = n
    /\ \A i \in 1 .. n :
         \E x \in EventsOf(b) :
           x.agg = agg /\ x.version = e + i /\ x.tx = Tx(b, <<i, n>>)

\* C30: an append of N events with expected version e commits all N events
\* with the versions e+1 .. e+N, or commits none of them; a reader of the
\* store never sees a part of a batch.
C30_BatchIsAtomic ==
  \A b \in Pair :
    /\ pc[b] = "idle" => EventsOf(b) = {}
    /\ pc[b] = "done"
         => IF loc[b].err = "conflict"
            THEN EventsOf(b) = {}
            ELSE WholeBatch(b, loc[b].ver)

\* on empty wallets one caller committed a batch that left version 1 free,
\* and the batch of the other caller, which starts at version 1 and so
\* collides only in a later row, was rejected as a whole
C30_Witness ==
  \E b \in Pair, c \in Pair :
    /\ b # c
    /\ pc[b] = "done" /\ pc[c] = "done"
    /\ loc[b].err = "none" /\ Cardinality(EventsOf(b)) = MaxBatch
    /\ loc[c].err = "conflict" /\ loc[c].ver = 0
    /\ \A x \in events : x.tx[1] = b /\ x.version > 1

\* the message at the head of the fraud queue was processed before
Redelivery ==
  /\ fraudQueue # <<>>
  /\ \E i \in DOMAIN recentEvents :
       recentEvents[i].transactionId = Head(fraudQueue).transactionId

\* the fraud consumer processes a transactional event in this step
Processes == recentEvents' # recentEvents

\* C21: the fraud store holds at most one alert per (transaction_id,
\* rule_id), also when an event is delivered to the fraud consumer more than
\* once.
C21_OneAlertPerTransactionAndRule ==
  \A i \in DOMAIN alerts, j \in DOMAIN alerts :
    (alerts[i].transactionId = alerts[j].transactionId /\ alerts[i].ruleId = alerts[j].ruleId)
      => i = j

\* C22: a second delivery of an event to the fraud consumer leaves the
\* wallet's risk_score and alert_count as they were after the first.
C22_RedeliveryKeepsRiskProfile ==
  [][(Redelivery /\ Processes) => riskProfiles' = riskProfiles]_vars

\* the risk level the buckets [0,25], (25,50], (50,75], (75,100] give a score
Bucket(score) ==
  CASE score \in 0 .. 25 -> "LOW"
    [] score \in 26 .. 50 -> "MEDIUM"
    [] score \in 51 .. 75 -> "HIGH"
    [] score \in 76 .. 100 -> "CRITICAL"
    [] OTHER -> "NONE"

Published == { i \in DOMAIN queue' : i > Len(queue) }

\* the request whose handler committed or published under a transaction id
Owner(transactionId) == transactionId[1]

\* C31: a wallet-affecting message (deposit, withdrawal, saga debit, credit
\* or refund) is published only after the event with the same transaction id
\* has been committed to the event log; a step whose append is rejected
\* publishes nothing.
C31_PublishedAfterCommit ==
  [][\A r \in Pair :
       /\ \A i \in Published :
            \E e \in events' :
              e.tx = queue'[i].transactionId /\ e.agg = queue'[i].walletId
                /\ e.amount = queue'[i].amount
       /\ (events' = events) => (queue' = queue)
       /\ (pc[r] \in {"save", "d_save", "c_save", "r_save"} /\ pc'[r] # pc[r]
             /\ loc'[r].err = "conflict")
            => (queue' = queue /\ events' = events)]_vars

\* one request lost the race for a version and published nothing, while the
\* winner's message is on the bus
C31_Witness ==
  \E r \in Pair, q \in Pair :
    /\ r # q
    /\ Responded(r) /\ loc[r].err = "conflict" /\ EventsOf(r) = {}
    /\ \A i \in DOMAIN queue : Owner(queue[i].transactionId) # r
    /\ \E i \in DOMAIN queue : Owner(queue[i].transactionId) = q

\* C32: for each saga step the new status is persisted before the message is
\* published: SourceWalletDebited is published only when the saga row is
\* already SOURCE_DEBITED, DestinationWalletCredited only when it is already
\* COMPLETED.
C32_StatusPersistedBeforePublish ==
  [][\A i \in Published :
       LET m == queue'[i] IN
         /\ m.eventType = "SourceWalletDebitedEvent"
              => sagas[Owner(m.transactionId)].status = "SOURCE_DEBITED"
         /\ m.eventType = "DestinationWalletCreditedEvent"
              => sagas[Owner(m.transactionId)].status = "COMPLETED"]_vars

\* the saga of request r has entered COMPENSATING
Compensated(r) ==
  \/ sagas[r].status = "COMPENSATING"
  \/ sagas[r].status = "FAILED" /\ sagas[r].compTx # "none"

\* C33: for a saga that enters COMPENSATING, DestinationWalletCredited is
\* never published (TransferCompleted, which carries no wallet change, is
\* published by the same step that returns success).
C33_CompensatingSagaPublishedNoCredit ==
  \A r \in Pair :
    Compensated(r)
      => \A i \in DOMAIN queue :
           ~ (queue[i].eventType = "DestinationWalletCreditedEvent"
                /\ Owner(queue[i].transactionId) = r)

\* the client of request q holds a response of the handler for key k
Answered(q, k) ==
  /\ resp[q].status = "CREATED"
  /\ resp[q].key = k
  /\ ~ resp[q].cached

\* C38: once a client has received the successful response to a request with
\* idempotency key K, every later request with K receives the cached
\* response: never 409 and never a second execution of the command.
C38_AnsweredKeyIsCached ==
  [][\A r \in Req :
       (pc[r] = "idle" /\ pc'[r] # pc[r]
          /\ \E q \in Req \ {r} : Answered(q, cmd'[r].key))
         => /\ pc'[r] = "done"
            /\ resp'[r].cached
            /\ \E q \in Req \ {r} :
                 Answered(q, cmd'[r].key) /\ resp'[r].body = resp[q].body]_vars

\* C39: a COMPLETED idempotency record is not overwritten or deleted by the
\* complete or release of another request with the same key: once stored it
\* stays as it is (the request that stored it has ended).
C39_CompletedRecordIsKept ==
  [][\A k \in Keys : redis[k].status = "COMPLETED" => redis'[k] = redis[k]]_vars

\* C40: the saga row and the event log agree: a COMPLETED saga has exactly
\* one committed debit on the source, one committed credit on the
\* destination and no refund; a FAILED saga with a compensation transaction
\* id has exactly one debit and one refund on the source and no credit on
\* the destination.
C40_SagaRowAgreesWithLog ==
  \A r \in Pair :
    LET debit == StepEvents(events, r, "debit")
        credit == StepEvents(events, r, "credit")
        refund == StepEvents(events, r, "refund")
    IN
      /\ sagas[r].status = "COMPLETED"
           => /\ Cardinality(debit) = 1 /\ \A e \in debit : e.agg = cmd[r].from
              /\ Cardinality(credit) = 1 /\ \A e \in credit : e.agg = cmd[r].to
              /\ refund = {}
      /\ (sagas[r].status = "FAILED" /\ sagas[r].compTx # "none")
           => /\ Cardinality(debit) = 1 /\ \A e \in debit : e.agg = cmd[r].from
              /\ Cardinality(refund) = 1 /\ \A e \in refund : e.agg = cmd[r].from
              /\ credit = {}

\* request r holds the lock of its key: SET NX succeeded and neither
\* complete nor release has run
HoldsLock(r) == (Executing(r) \/ pc[r] \in {"complete", "release"}) /\ pc[r] # "done"

Completes(k) == holder[k].state = "running" /\ redisTtl'[k].status = "COMPLETED"

\* C35 as stated: complete(key, response) does not extend the record's
\* lifetime: the record keeps its original created_at and still expires at
\* original created_at + TTL.
C35_Original ==
  [][\A k \in Keys :
       Completes(k)
         => /\ redisTtl'[k].createdAt = holder[k].lockedAt
            /\ redisTtl'[k].expiresAt = holder[k].lockedAt + TtlSeconds]_vars

\* C35 amended: complete(key, response) restarts the record's lifetime: the
\* stored record has created_at = the time of completion and expires TTL
\* after the completion, whenever the lock was taken.
C35_CompleteRestartsTtl ==
  [][\A k \in Keys :
       Completes(k)
         => /\ redisTtl'[k].createdAt = now
            /\ redisTtl'[k].expiresAt = now + TtlSeconds]_vars

\* a record was completed later than it was locked and is still stored at the
\* time the lock would have expired
C35_Witness ==
  \E k \in Keys :
    /\ redisTtl[k].status = "COMPLETED"
    /\ holder[k].state = "idle"
    /\ redisTtl[k].createdAt > holder[k].lockedAt
    /\ now >= holder[k].lockedAt + TtlSeconds

\* the wallet row of w shows a balance that a transaction row of w recorded
Backed(w) ==
  \A row \in Rows(walletRead, w) :
    \E t \in txRead : t.walletId = w /\ t.balanceAfter = row.balance

\* C36: when the consumer nacks a message because its processing failed,
\* none of the message's effects remain in the consumer's store: no
\* transaction row of the message, and the wallet row still shows a balance
\* written together with a transaction row.  Stated for runs in which no
\* message was delivered twice, so that nothing in the store stems from an
\* earlier, acknowledged delivery of the same message.
C36_NackedMessageLeftNothing ==
  (consumer = "idle" /\ redelivered = 0)
    => \A i \in DOMAIN dlq :
         /\ Rows(txRead, dlq[i].transactionId) = {}
         /\ Backed(dlq[i].walletId)

\* the handler of the message at the head of the queue throws in this step
HandlerThrows ==
  /\ consumer = "addTransaction"
  /\ consumer' = "idle"
  /\ Rows(txRead', Head(queue).transactionId) = {}

\* C37: a message whose handler throws is negatively acknowledged once with
\* requeue = false and routed to the dead-letter queue: it leaves the main
\* queue in that step, is on the dead-letter queue once and is never on the
\* main queue again.
C37_FailedMessageIsDeadLettered ==
  [][/\ (HandlerThrows \/ dlq' # dlq)
         => /\ dlq' = Append(dlq, Head(queue))
            /\ queue' = Tail(queue)
            /\ redelivered' = redelivered
     /\ \A i \in DOMAIN dlq', j \in DOMAIN queue' :
          dlq'[i].transactionId # queue'[j].transactionId
     /\ \A i \in DOMAIN dlq', j \in DOMAIN dlq' :
          dlq'[i].transactionId = dlq'[j].transactionId => i = j]_vars

\* a message was dead-lettered after its first write and a later message of
\* the same wallet has been projected
C37_Witness ==
  \E i \in DOMAIN dlq :
    /\ Rows(txRead, dlq[i].transactionId) = {}
    /\ \E t \in txRead : t.walletId = dlq[i].walletId /\ t.id[1] \in Pair
    /\ queue = <<>>
    /\ consumer = "idle"

====
